---- MODULE Spec2Model ----
(***************************************************************************)
(* Model of src/src/main.py: the guard(text?, image_path?) call, its two   *)
(* moderation-service checks (guard_text, guard_image: one apply_guardrail *)
(* call each), its two judge checks (guard_nova_text, guard_nova_image:    *)
(* the converse call inside a `while True` validate-and-retry loop) and    *)
(* handle_image, which resolves the image path.                            *)
(*                                                                         *)
(* The two endpoints are the environment: every call draws its outcome     *)
(* (a response, a reply text, or an error) nondeterministically.           *)
(* Python values are tagged records so that `==` between a response dict   *)
(* and a string is an ordinary (false) equality, as it is in Python.       *)
(* Paths are sequences of one-character strings, so that lower() and the   *)
(* `in` substring test are computed, not assumed.                          *)
(***************************************************************************)
EXTENDS Integers, Sequences, FiniteSets, TLC

VARIABLES
    pc,               \* position of control of the guard invocation
    guard_content,    \* guard's first argument: None or a str
    img_path,         \* guard's second argument: None or a path
    fileExists,       \* os.path.exists(img_path)
    img_blob,         \* len() of the bytes the file at img_path holds
    decision,         \* the dict built by guard (None before the first call)
    text_result,      \* guard: value returned by guard_text
    nova_text_result, \* guard: value returned by guard_nova_text
    ext,              \* handle_image: derived format
    img_result,       \* handle_image: value returned by guard_image
    nova_img_result,  \* handle_image: value returned by guard_nova_image
    result_text,      \* judge client: first text segment of the last reply
    result,           \* value guard returned to its caller (None if none)
    exc,              \* exception that left guard ("" if none)
    calls,            \* endpoint invocations made by each check, this invocation
    malformed,        \* malformed replies absorbed by each judge check
    sentFormat,       \* format tag each image check put in its request
    log               \* history: <<event, check>> in the order they happened

vars == <<pc, guard_content, img_path, fileExists, img_blob, decision,
          text_result, nova_text_result, ext, img_result, nova_img_result,
          result_text, result, exc, calls, malformed, sentFormat, log>>

-----------------------------------------------------------------------------
(* Bounds of the model *)

\* Endpoint-call and malformed-reply counters stop counting here (they
\* saturate; the loop itself is not cut, so it can still run forever).
MaxMalformed == 3

-----------------------------------------------------------------------------
(* Python values *)

None == [type |-> "NoneType", v |-> "None"]
Str(s) == [type |-> "str", v |-> s]
IsNone(x) == x.type = "NoneType"

\* img_path values: the characters of the path, or None
NoPath == [type |-> "NoneType", chars |-> <<>>]
Path(p) == [type |-> "str", chars |-> p]

\* What bedrock_runtime.apply_guardrail returns: a dict whose 'action' entry
\* is 'GUARDRAIL_INTERVENED' or 'NONE'.  guard_text and guard_image return
\* this dict itself.
ApplyGuardrailResponse(action) == [type |-> "dict", v |-> action]

INTERVENED == Str("GUARDRAIL_INTERVENED")
CLEAR == Str("NONE")

MAX_IMAGE_SIZE == 4 * 1024 * 1024

-----------------------------------------------------------------------------
(* Inputs and environment *)

Texts == {"", "hihi"}

Paths ==
    { <<"1", ".", "j", "p", "g">>,
      <<"p", ".", "J", "P", "G">>,
      <<"c", ".", "s", "v", "g">>,
      <<"a", ".", "P", "n", "g">>,
      <<"x", ".", "j", "p", "e", "g">>,
      <<"p", "n", "g", ".", "j", "p", "g">>,
      <<"p", "n", "g", "s", "/", "a", ".", "g", "i", "f">> }

BlobSizes == {0, MAX_IMAGE_SIZE - 1, MAX_IMAGE_SIZE, MAX_IMAGE_SIZE + 1}

\* Outcomes of one apply_guardrail call
ApplyOutcomes ==
    { [kind |-> "response", action |-> "GUARDRAIL_INTERVENED"],
      [kind |-> "response", action |-> "NONE"],
      [kind |-> "error", action |-> ""] }

\* Outcomes of one converse call: a reply with this first text segment, or
\* a transport/service error
ReplyTexts == {"GUARDRAIL_INTERVENED", "NONE", "maybe?", "NONE\n"}
ConverseOutcomes ==
    {[kind |-> "reply", text |-> t] : t \in ReplyTexts}
        \cup {[kind |-> "error", text |-> ""]}

Checks == <<"guard_text", "guard_nova_text", "guard_image", "guard_nova_image">>
CheckSet == {Checks[i] : i \in 1..Len(Checks)}
JudgeChecks == {"guard_nova_text", "guard_nova_image"}
ImageChecks == {"guard_image", "guard_nova_image"}

-----------------------------------------------------------------------------
(* Pure helpers *)

UpperCase == <<"A", "B", "C", "D", "E", "F", "G", "H", "I", "J", "K", "L", "M",
               "N", "O", "P", "Q", "R", "S", "T", "U", "V", "W", "X", "Y", "Z">>
LowerCase == <<"a", "b", "c", "d", "e", "f", "g", "h", "i", "j", "k", "l", "m",
               "n", "o", "p", "q", "r", "s", "t", "u", "v", "w", "x", "y", "z">>

\* str.lower() on one character
LowerChar(c) ==
    IF \E i \in 1..Len(UpperCase) : UpperCase[i] = c
    THEN LowerCase[CHOOSE i \in 1..Len(UpperCase) : UpperCase[i] = c]
    ELSE c

\* str.lower()
Lower(s) == [i \in 1..Len(s) |-> LowerChar(s[i])]

\* `sub in s` for strings
Contains(sub, s) ==
    \E i \in 1..(Len(s) - Len(sub) + 1) : SubSeq(s, i, i + Len(sub) - 1) = sub

\* The variant that falls back to 'png' instead of None
DetermineExtDefaultPng(p) ==
    IF Contains(<<"j", "p", "g">>, Lower(p)) \/ Contains(<<"j", "p", "e", "g">>, Lower(p))
    THEN Str("jpeg")
    ELSE Str("png")

\* handle_image, lines 285-289
DetermineExt(p) ==
    IF Contains(<<"j", "p", "g">>, Lower(p)) \/ Contains(<<"j", "p", "e", "g">>, Lower(p))
    THEN Str("jpeg")
    ELSE IF Contains(<<"p", "n", "g">>, Lower(p)) THEN Str("png") ELSE None

\* The off-by-one variant of the size check
SizeExceedsInclusive(n) == n >= MAX_IMAGE_SIZE

\* guard_image, line 62
SizeExceeds(n) == n > MAX_IMAGE_SIZE

\* The variant that accepts every reply
IsValidTokenAny(t) == TRUE

\* guard_nova_text line 194, guard_nova_image line 262
IsValidToken(t) == t \in {"GUARDRAIL_INTERVENED", "NONE"}

\* The variant with a retry cap: the loop is left after two malformed replies
LoopConditionCapped(n) == n < 2

\* `while True`, lines 175 and 243 (n: malformed replies so far)
LoopCondition(n) == TRUE

\* The variant that swallows the error and tries again
JudgeStepSwallow(outcome) ==
    IF outcome.kind = "error" THEN "retry"
    ELSE IF IsValidToken(outcome.text) THEN "return" ELSE "retry"

\* One iteration of the judge loop, lines 176-204 and 244-272: an exception
\* is re-raised, an accepted token is returned, anything else goes round
JudgeStep(outcome) ==
    IF outcome.kind = "error" THEN "raise"
    ELSE IF IsValidToken(outcome.text) THEN "return" ELSE "retry"

\* The variant that passes the caller's format on
NovaImageFormatFromArg(img_format) == img_format

\* guard_nova_image, line 226: the format tag of the image content block
NovaImageFormat(img_format) == Str("jpeg")

\* The variant that stores the check's value as it is
FoldRaw(dec, key, value) == [dec EXCEPT ![key] = value]

\* The variant that overwrites the key with the last check's verdict
FoldOverwrite(dec, key, value) ==
    [dec EXCEPT ![key] = IF value = INTERVENED THEN INTERVENED ELSE CLEAR]

\* guard lines 311-312 and 315-316, handle_image lines 297-298 and 301-302
Fold(dec, key, value) ==
    IF value = INTERVENED THEN [dec EXCEPT ![key] = INTERVENED] ELSE dec

\* guard, line 306
DefaultDecision == [guardrails |-> CLEAR, nova |-> CLEAR]

Saturate(n, max) == IF n < max THEN n + 1 ELSE max

\* Entering a check is recorded in the history
Enter(label, lg) ==
    IF label \in CheckSet THEN Append(lg, <<"start", label>>) ELSE lg

\* guard, lines 318-322: what follows the text checks
AfterTextChecks(path) == IF ~IsNone(path) THEN "handle_image" ELSE "return"

\* The variant that runs the moderation-service image check again
AfterNovaImageAgain == "guard_image"

\* handle_image falls off its end after line 302 and guard returns
AfterNovaImage == "return"

-----------------------------------------------------------------------------
(* State *)

ZeroCalls == [c \in CheckSet |-> 0]
ZeroMalformed == [c \in JudgeChecks |-> 0]
NoFormat == [c \in ImageChecks |-> None]

Init ==
    /\ pc = "idle"
    /\ guard_content = None
    /\ img_path = NoPath
    /\ fileExists = FALSE
    /\ img_blob = 0
    /\ decision = None
    /\ text_result = None
    /\ nova_text_result = None
    /\ ext = None
    /\ img_result = None
    /\ nova_img_result = None
    /\ result_text = None
    /\ result = None
    /\ exc = ""
    /\ calls = ZeroCalls
    /\ malformed = ZeroMalformed
    /\ sentFormat = NoFormat
    /\ log = <<>>

\* An exception leaves the check and, uncaught, guard
\* The history after one endpoint call with outcome o
Called(check, o) ==
    IF o.kind = "error" THEN Append(log, <<"error", check>>) ELSE log

Raise(check, error, lg) ==
    /\ exc' = error
    /\ pc' = "raised"
    /\ log' = Append(lg, <<"raise", check>>)

\* The check returns and control moves on to `label`
Leave(check, label, lg) ==
    /\ pc' = label
    /\ log' = Enter(label, Append(lg, <<"done", check>>))
    /\ UNCHANGED exc

CountCall(check) ==
    calls' = [calls EXCEPT ![check] = Saturate(@, MaxMalformed + 1)]

-----------------------------------------------------------------------------
(* Operations *)

\* guard(guard_content, img_path) is called, lines 304-309 and 318-319.
\* A behaviour is one invocation, from the call to its return or exception;
\* the file system is fixed for its duration.
Guard(text, path, exists, size) ==
    /\ pc = "idle"
    /\ guard_content' = text
    /\ img_path' = path
    /\ fileExists' = exists
    /\ img_blob' = size
    /\ decision' = DefaultDecision
    /\ text_result' = None
    /\ nova_text_result' = None
    /\ ext' = None
    /\ img_result' = None
    /\ nova_img_result' = None
    /\ result_text' = None
    /\ result' = None
    /\ exc' = ""
    /\ calls' = ZeroCalls
    /\ malformed' = ZeroMalformed
    /\ sentFormat' = NoFormat
    /\ LET first == IF ~IsNone(text) THEN "guard_text" ELSE AfterTextChecks(path)
       IN /\ pc' = first
          /\ log' = Enter(first, <<>>)

GuardCall ==
    \E text \in {None} \cup {Str(t) : t \in Texts} :
        \/ Guard(text, NoPath, FALSE, 0)
        \/ \E p \in Paths :
              \/ Guard(text, Path(p), FALSE, 0)
              \/ \E size \in BlobSizes : Guard(text, Path(p), TRUE, size)

\* guard_text, lines 41-57, and guard lines 310-312
GuardTextOn(o) ==
    /\ pc = "guard_text"
    /\ CountCall("guard_text")
    /\ IF o.kind = "error"
       THEN /\ Raise("guard_text", "ClientError", Called("guard_text", o))
            /\ UNCHANGED <<text_result, decision>>
       ELSE /\ text_result' = ApplyGuardrailResponse(o.action)
            /\ decision' = Fold(decision, "guardrails", text_result')
            /\ Leave("guard_text", "guard_nova_text", Called("guard_text", o))
    /\ UNCHANGED <<guard_content, img_path, fileExists, img_blob,
                   nova_text_result, ext, img_result, nova_img_result,
                   result_text, result, malformed, sentFormat>>

GuardText == \E o \in ApplyOutcomes : GuardTextOn(o)

\* One iteration of guard_nova_text's loop, lines 175-204, and, when it
\* returns, guard lines 314-316
GuardNovaTextOn(o) ==
    /\ pc = "guard_nova_text"
    /\ CountCall("guard_nova_text")
    /\ result_text' = IF o.kind = "reply" /\ JudgeStep(o) # "raise"
                      THEN Str(o.text) ELSE result_text
    /\ CASE JudgeStep(o) = "raise" ->
              /\ Raise("guard_nova_text", "ClientError", Called("guard_nova_text", o))
              /\ UNCHANGED <<nova_text_result, decision, malformed>>
         [] JudgeStep(o) = "return" ->
              /\ nova_text_result' = Str(o.text)
              /\ decision' = Fold(decision, "nova", nova_text_result')
              /\ Leave("guard_nova_text", AfterTextChecks(img_path), Called("guard_nova_text", o))
              /\ UNCHANGED malformed
         [] OTHER ->
              /\ malformed' = [malformed EXCEPT
                                  !["guard_nova_text"] = Saturate(@, MaxMalformed)]
              /\ IF LoopCondition(malformed'["guard_nova_text"])
                 THEN /\ log' = Called("guard_nova_text", o)
                      /\ UNCHANGED <<pc, exc, nova_text_result, decision>>
                 ELSE \* the loop is left and the function returns None
                      /\ nova_text_result' = None
                      /\ decision' = Fold(decision, "nova", nova_text_result')
                      /\ Leave("guard_nova_text", AfterTextChecks(img_path), Called("guard_nova_text", o))
    /\ UNCHANGED <<guard_content, img_path, fileExists, img_blob, text_result,
                   ext, img_result, nova_img_result, result, sentFormat>>

GuardNovaText == \E o \in ConverseOutcomes : GuardNovaTextOn(o)

\* handle_image up to the first check, lines 274-293
HandleImage ==
    /\ pc = "handle_image"
    /\ IF ~fileExists
       THEN /\ pc' = "return"
            /\ UNCHANGED <<ext, log>>
       ELSE /\ ext' = DetermineExt(img_path.chars)
            /\ LET next == IF IsNone(ext') THEN "return" ELSE "guard_image"
               IN /\ pc' = next
                  /\ log' = Enter(next, log)
    /\ UNCHANGED <<guard_content, img_path, fileExists, img_blob, decision,
                   text_result, nova_text_result, img_result, nova_img_result,
                   result_text, result, exc, calls, malformed, sentFormat>>

\* guard_image, lines 59-80, and handle_image lines 296-298
GuardImageOn(o) ==
    /\ pc = "guard_image"
    /\ IF SizeExceeds(img_blob)
       THEN /\ Raise("guard_image", "ValueError", log)
            /\ UNCHANGED <<calls, sentFormat, img_result, decision>>
       ELSE /\ CountCall("guard_image")
            /\ sentFormat' = [sentFormat EXCEPT !["guard_image"] = ext]
            /\ IF o.kind = "error"
               THEN /\ Raise("guard_image", "ClientError", Called("guard_image", o))
                    /\ UNCHANGED <<img_result, decision>>
               ELSE /\ img_result' = ApplyGuardrailResponse(o.action)
                    /\ decision' = Fold(decision, "guardrails", img_result')
                    /\ Leave("guard_image", "guard_nova_image", Called("guard_image", o))
    /\ UNCHANGED <<guard_content, img_path, fileExists, img_blob, text_result,
                   nova_text_result, ext, nova_img_result, result_text, result,
                   malformed>>

GuardImage == \E o \in ApplyOutcomes : GuardImageOn(o)

\* One iteration of guard_nova_image's loop, lines 206-272, and, when it
\* returns, handle_image lines 300-302
GuardNovaImageOn(o) ==
    /\ pc = "guard_nova_image"
    /\ CountCall("guard_nova_image")
    /\ sentFormat' = [sentFormat EXCEPT !["guard_nova_image"] = NovaImageFormat(ext)]
    /\ result_text' = IF o.kind = "reply" /\ JudgeStep(o) # "raise"
                      THEN Str(o.text) ELSE result_text
    /\ CASE JudgeStep(o) = "raise" ->
              /\ Raise("guard_nova_image", "ClientError", Called("guard_nova_image", o))
              /\ UNCHANGED <<nova_img_result, decision, malformed>>
         [] JudgeStep(o) = "return" ->
              /\ nova_img_result' = Str(o.text)
              /\ decision' = Fold(decision, "nova", nova_img_result')
              /\ Leave("guard_nova_image", AfterNovaImage, Called("guard_nova_image", o))
              /\ UNCHANGED malformed
         [] OTHER ->
              /\ malformed' = [malformed EXCEPT
                                  !["guard_nova_image"] = Saturate(@, MaxMalformed)]
              /\ IF LoopCondition(malformed'["guard_nova_image"])
                 THEN /\ log' = Called("guard_nova_image", o)
                      /\ UNCHANGED <<pc, exc, nova_img_result, decision>>
                 ELSE \* the loop is left and the function returns None
                      /\ nova_img_result' = None
                      /\ decision' = Fold(decision, "nova", nova_img_result')
                      /\ Leave("guard_nova_image", AfterNovaImage, Called("guard_nova_image", o))
    /\ UNCHANGED <<guard_content, img_path, fileExists, img_blob, text_result,
                   nova_text_result, ext, img_result, result>>

GuardNovaImage == \E o \in ConverseOutcomes : GuardNovaImageOn(o)

\* guard, line 322
Return ==
    /\ pc = "return"
    /\ result' = decision
    /\ pc' = "returned"
    /\ UNCHANGED <<guard_content, img_path, fileExists, img_blob, decision,
                   text_result, nova_text_result, ext, img_result,
                   nova_img_result, result_text, exc, calls, malformed,
                   sentFormat, log>>

Next ==
    \/ GuardCall
    \/ GuardText
    \/ GuardNovaText
    \/ HandleImage
    \/ GuardImage
    \/ GuardNovaImage
    \/ Return

Spec == Init /\ [][Next]_vars

\* A step of the invocation other than absorbing one more malformed reply
Progress ==
    \/ GuardText
    \/ \E o \in ConverseOutcomes : JudgeStep(o) # "retry" /\ GuardNovaTextOn(o)
    \/ HandleImage
    \/ GuardImage
    \/ \E o \in ConverseOutcomes : JudgeStep(o) # "retry" /\ GuardNovaImageOn(o)
    \/ Return

\* The interpreter keeps running the sequential code, and every judge call
\* eventually gets a valid token or an error.
FairSpec == Spec /\ WF_vars(Progress)

-----------------------------------------------------------------------------
(* Vocabulary of the properties *)

Verdicts == {INTERVENED, CLEAR}

Rank(c) == CHOOSE i \in 1..Len(Checks) : Checks[i] = c

Happened(event, c) == \E i \in 1..Len(log) : log[i] = <<event, c>>
Started(c) == Happened("start", c)
Done(c) == Happened("done", c)

\* A moderation-endpoint response that flags the content
Flagged(r) == r.type = "dict" /\ r.v = "GUARDRAIL_INTERVENED"

\* The image cannot be evaluated: no path, no such file, or a path that
\* names none of the supported formats
NotEvaluable ==
    \/ IsNone(img_path)
    \/ ~fileExists
    \/ /\ ~Contains(<<"j", "p", "g">>, Lower(img_path.chars))
       /\ ~Contains(<<"j", "p", "e", "g">>, Lower(img_path.chars))
       /\ ~Contains(<<"p", "n", "g">>, Lower(img_path.chars))

\* The format the path stands for
FormatOfPath ==
    IF Contains(<<"j", "p", "g">>, Lower(img_path.chars))
       \/ Contains(<<"j", "p", "e", "g">>, Lower(img_path.chars))
    THEN Str("jpeg")
    ELSE Str("png")

-----------------------------------------------------------------------------
(* Properties *)

\* C1: when guard returns, the 'guardrails' key is GUARDRAIL_INTERVENED
\* whenever the moderation endpoint's response for the text or for the image
\* was a flagged one; in particular text flagged by the service only, with a
\* judge that replies NONE, yields {guardrails: INTERVENED, nova: NONE}.
C1_ServiceFlagSetsKey ==
    pc = "returned" =>
        /\ (Flagged(text_result) \/ Flagged(img_result))
              => result.guardrails = INTERVENED
        /\ (Flagged(text_result) /\ nova_text_result = CLEAR /\ NotEvaluable)
              => result = [guardrails |-> INTERVENED, nova |-> CLEAR]

\* C2: a judge check that has returned has returned one of the two tokens,
\* namely the first text segment of the last reply, and its endpoint was
\* invoked once more than the number of malformed replies before it.
C2_JudgeRetryCount ==
    /\ Done("guard_nova_text") =>
          /\ nova_text_result \in Verdicts
          /\ calls["guard_nova_text"] = malformed["guard_nova_text"] + 1
          /\ calls["guard_nova_image"] = 0 => nova_text_result = result_text
    /\ Done("guard_nova_image") =>
          /\ nova_img_result \in Verdicts
          /\ calls["guard_nova_image"] = malformed["guard_nova_image"] + 1
          /\ nova_img_result = result_text

C2_Witness ==
    /\ Done("guard_nova_text")
    /\ malformed["guard_nova_text"] = 1
    /\ calls["guard_nova_text"] = 2
    /\ nova_text_result = CLEAR

\* C3: an endpoint error is the last thing that happens in the invocation:
\* it leaves guard as an exception, the failing call is not repeated, no later
\* check has started or called its endpoint, and nothing is returned.
C3_ErrorsPropagate ==
    \A i \in 1..Len(log) :
        log[i][1] = "error" =>
            LET c == log[i][2] IN
            /\ i + 1 = Len(log)
            /\ log[i + 1] = <<"raise", c>>
            /\ pc = "raised"
            /\ exc = "ClientError"
            /\ result = None
            /\ calls[c] = IF c \in JudgeChecks THEN malformed[c] + 1 ELSE 1
            /\ \A d \in CheckSet :
                  Rank(d) > Rank(c) => ~Started(d) /\ calls[d] = 0

C3_Witness ==
    /\ pc = "raised"
    /\ log = <<<<"start", "guard_text">>, <<"done", "guard_text">>,
               <<"start", "guard_nova_text">>, <<"error", "guard_nova_text">>,
               <<"raise", "guard_nova_text">>>>
    /\ calls["guard_nova_text"] = 1
    /\ ~IsNone(img_path)

\* C4: once guard_image has run, an image of more than 4 MiB has raised the
\* size error with no moderation-endpoint call and no judge image check;
\* an image of at most 4 MiB has cost exactly one moderation-endpoint call.
C4_SizeLimit ==
    (Started("guard_image") /\ pc # "guard_image") =>
        IF img_blob > 4 * 1024 * 1024
        THEN /\ pc = "raised"
             /\ exc = "ValueError"
             /\ result = None
             /\ calls["guard_image"] = 0
             /\ calls["guard_nova_image"] = 0
             /\ ~Started("guard_nova_image")
        ELSE calls["guard_image"] = 1

C4_Witness ==
    /\ pc = "raised"
    /\ exc = "ValueError"
    /\ img_blob = 4 * 1024 * 1024 + 1
    /\ calls["guard_image"] = 0

C6_FixedOrder ==
    /\ \A i, j \in 1..Len(log) :
          (i < j /\ log[i][1] = "start" /\ log[j][1] = "start")
              => Rank(log[i][2]) < Rank(log[j][2])
    /\ \A j \in 1..Len(log) :
          (log[j][1] = "start" /\ j > 1) =>
              /\ log[j - 1][1] = "done"
              /\ Rank(log[j - 1][2]) < Rank(log[j][2])
    /\ \A c \in CheckSet :
          Started(c) =>
              /\ (~IsNone(guard_content) /\ Rank(c) > 1) => Done("guard_text")
              /\ (~IsNone(guard_content) /\ Rank(c) > 2) => Done("guard_nova_text")
              /\ Rank(c) > 3 => Done("guard_image")
    /\ (pc = "returned" /\ ~IsNone(guard_content)) =>
          Done("guard_text") /\ Done("guard_nova_text")
    /\ (pc = "returned" /\ ~NotEvaluable) =>
          Done("guard_image") /\ Done("guard_nova_image")

C6_Witness ==
    /\ pc = "returned"
    /\ log = <<<<"start", "guard_text">>, <<"done", "guard_text">>,
               <<"start", "guard_nova_text">>, <<"done", "guard_nova_text">>,
               <<"start", "guard_image">>, <<"done", "guard_image">>,
               <<"start", "guard_nova_image">>, <<"done", "guard_nova_image">>>>

\* C7: throughout an invocation the decision has exactly the keys
\* 'guardrails' and 'nova', each 'GUARDRAIL_INTERVENED' or 'NONE', and so
\* has the decision guard returns.
C7_DecisionWellFormed ==
    pc # "idle" =>
        /\ DOMAIN decision = {"guardrails", "nova"}
        /\ decision.guardrails \in Verdicts
        /\ decision.nova \in Verdicts
        /\ pc = "returned" =>
              /\ DOMAIN result = {"guardrails", "nova"}
              /\ result.guardrails \in Verdicts
              /\ result.nova \in Verdicts

C7_Witness ==
    /\ pc = "returned"
    /\ Flagged(text_result)
    /\ Flagged(img_result)
    /\ result_text = INTERVENED
    /\ result.nova = INTERVENED

\* C8: within an invocation a key that is GUARDRAIL_INTERVENED stays so, and
\* the 'nova' key, also of the returned decision, is GUARDRAIL_INTERVENED
\* exactly when the judge text check or the judge image check returned it.
C8_KeysAreOred ==
    /\ [](pc # "idle" =>
            /\ decision.nova = INTERVENED
                  <=> (nova_text_result = INTERVENED \/ nova_img_result = INTERVENED)
            /\ pc = "returned" => result = decision)
    /\ [][pc # "idle" =>
            \A k \in {"guardrails", "nova"} :
                decision[k] = INTERVENED => decision'[k] = INTERVENED]_vars

C8_Witness ==
    /\ pc = "returned"
    /\ nova_text_result = INTERVENED
    /\ nova_img_result = CLEAR
    /\ result.nova = INTERVENED

\* C9: a judge loop is left only by an accepted token or by the endpoint's
\* error, however many malformed replies came before; and if every judge
\* call eventually gets a valid token or an error, every invocation of guard
\* ends, with a returned decision or an exception.
C9_NoCapAndTermination ==
    /\ [][(pc \in JudgeChecks /\ pc' # pc) =>
            \/ pc' = "raised" /\ exc' = "ClientError"
            \/ result_text' \in Verdicts]_vars
    /\ [](\A c \in JudgeChecks :
            (malformed[c] > 0 /\ ~Done(c) /\ ~Happened("raise", c)) => pc = c)
    /\ (pc # "idle") ~> (pc \in {"returned", "raised"})

C9_Witness ==
    /\ pc = "guard_nova_image"
    /\ malformed["guard_nova_image"] = MaxMalformed
    /\ calls["guard_nova_image"] = MaxMalformed + 1
    /\ result_text = Str("maybe?")

\* C10: the format tag guard_nova_image sends to the judge model is the one
\* derived from the path, the same tag guard_image sent to the moderation
\* endpoint.
C10_JudgeFormatMatches ==
    calls["guard_nova_image"] > 0 =>
        /\ sentFormat["guard_nova_image"] = FormatOfPath
        /\ sentFormat["guard_nova_image"] = sentFormat["guard_image"]

====
